---- MODULE Spec2Model ----
(***************************************************************************)
(* Model of rest_framework_bulk/drf3/mixins.py: the three bulk mixins      *)
(* (BulkCreateModelMixin, BulkUpdateModelMixin, BulkDestroyModelMixin)     *)
(* acting on one table of persisted records.  One request is handled at a  *)
(* time; the loops of bulk_update and perform_bulk_destroy advance one     *)
(* iteration per step so that a request can be observed, and can abort,    *)
(* between two items.                                                      *)
(***************************************************************************)
EXTENDS Integers, Sequences, FiniteSets, TLC

VARIABLES
    db,                 \* the table: pk -> name, NoRecord where no row exists
    db0,                \* the table as it was when the current request began
    pc,                 \* position of the request handler
    request,            \* the request being handled (method, data, query params, kwargs)
    partial,            \* bulk_update's local `partial`
    idx,                \* 1-based index of the next item of the loop in progress
    validated_data,     \* bulk_update's local list `validated_data`
    validation_errors,  \* bulk_update's local list `validation_errors`
    objects,            \* perform_bulk_destroy: the objects iterated, in order
    calls,              \* hooks and collaborators invoked so far by this request
    response,           \* what the handler returned, NoResponse while nothing or None
    exc                 \* the exception that left the handler, type "None" if none

vars == <<db, db0, pc, request, partial, idx, validated_data, validation_errors,
          objects, calls, response, exc>>

-----------------------------------------------------------------------------
(* Bounds of the model *)

MaxPk == 2
MaxBatch == 2

-----------------------------------------------------------------------------
(* Values *)

Pks == 1..MaxPk
Names == {"a", "b"}
Blank == ""
Missing == "<missing>"
NoRecord == "<no record>"
NoFilter == "<no filter>"
None == "None"

EmptyDict == <<>>

HTTP_200_OK == 200
HTTP_201_CREATED == 201
HTTP_204_NO_CONTENT == 204
HTTP_400_BAD_REQUEST == 400

SubmittedNames == Names \cup {Blank, Missing}

\* an item of an update payload carries an identifier; a field may be left out
UpdateItems == [id : Pks, name : SubmittedNames]
CreateItems == [name : SubmittedNames]

SeqsUpTo(S, n) == UNION {[1..k -> S] : k \in 0..n}

QueryParams == {NoFilter} \cup Names

KwargNames == {"pk", "slug"}
lookup_field == "pk"

NoResponse == [status |-> 0, shape |-> "none", data |-> <<>>]
NoException == [type |-> None, detail |-> <<>>]

-----------------------------------------------------------------------------
(* The persistence layer: the table and lazy querysets over it *)

Rows(table) == {pk \in Pks : table[pk] # NoRecord}

Max(S) == CHOOSE x \in S : \A y \in S : y <= x

NextPk(table) == IF Rows(table) = {} THEN 1 ELSE Max(Rows(table)) + 1

\* a queryset is a lazy query with an object identity
get_queryset == [ref |-> 1, where |-> NoFilter]

filter_queryset(qs, params) ==
    IF params = NoFilter THEN qs
    ELSE [ref |-> qs.ref + 1, where |-> params]

Evaluate(qs, table) ==
    IF qs.where = NoFilter THEN Rows(table)
    ELSE {pk \in Rows(table) : table[pk] = qs.where}

Representation(table, pk) == [id |-> pk, name |-> table[pk]]

Perms(S) == {s \in [1..Cardinality(S) -> S] : \A a, b \in DOMAIN s : s[a] = s[b] => a = b}

Range(s) == {s[k] : k \in DOMAIN s}

-----------------------------------------------------------------------------
(* The serialization layer: one required, non blank field `name` *)

Errors(item, isPartial) ==
    IF item.name = Missing
    THEN IF isPartial THEN EmptyDict ELSE [name |-> "required"]
    ELSE IF item.name = Blank THEN [name |-> "blank"] ELSE EmptyDict

is_valid(item, isPartial) == Errors(item, isPartial) = EmptyDict

ValidatedData(item, isPartial) ==
    IF ~is_valid(item, isPartial) THEN EmptyDict
    ELSE IF item.name = Missing THEN [id |-> item.id] ELSE item

ValidatedCreateData(item) == IF is_valid(item, FALSE) THEN item ELSE EmptyDict

-----------------------------------------------------------------------------
(* Initial state: an empty table and no request in progress *)

Init ==
    /\ db = [pk \in Pks |-> NoRecord]
    /\ db0 = [pk \in Pks |-> NoRecord]
    /\ pc = "idle"
    /\ request = [method |-> None]
    /\ partial = FALSE
    /\ idx = 0
    /\ validated_data = <<>>
    /\ validation_errors = <<>>
    /\ objects = <<>>
    /\ calls = <<>>
    /\ response = NoResponse
    /\ exc = NoException

\* entering a handler: the request is bound and the table remembered
Enter(req) ==
    /\ request' = req
    /\ db0' = db

Locals(p, i, vd, ve, objs) ==
    /\ partial' = p
    /\ idx' = i
    /\ validated_data' = vd
    /\ validation_errors' = ve
    /\ objects' = objs

Return(status, shape, data) ==
    /\ pc' = "done"
    /\ response' = [status |-> status, shape |-> shape, data |-> data]
    /\ exc' = NoException

Raise(type, detail) ==
    /\ pc' = "done"
    /\ response' = NoResponse
    /\ exc' = [type |-> type, detail |-> detail]

-----------------------------------------------------------------------------
(* BulkCreateModelMixin *)

CreatePayloads ==
    {[kind |-> "dict", items |-> <<it>>] : it \in CreateItems}
        \cup {[kind |-> "list", items |-> s] : s \in SeqsUpTo(CreateItems, MaxBatch)}

\* variant: every payload is treated as a list
IsBulk_Always(data) == TRUE

\* bulk = isinstance(request.data, list)
IsBulk(data) == data.kind = "list"

\* the errors of a many=True serializer: one entry per item, {} for a valid one
ListErrors(items) == [k \in DOMAIN items |-> Errors(items[k], FALSE)]

\* variant: only the first item of the list is validated
IsValidRaises_FirstOnly(errors) == errors # <<>> /\ errors[1] # EmptyDict

\* serializer.is_valid(raise_exception=True)
IsValidRaises(errors) == \E k \in DOMAIN errors : errors[k] # EmptyDict

\* serializer.save() of a many=True serializer without instance: one row per
\* validated item, in order, each under the next free pk
InsertAll(table, items) ==
    LET base == NextPk(table) - 1
        valid == SelectSeq(items, LAMBDA it : ValidatedCreateData(it) # EmptyDict)
    IN  [pk \in Pks |->
            IF pk > base /\ pk <= base + Len(valid) THEN valid[pk - base].name
            ELSE table[pk]]

CreatedData(table, items) ==
    LET base == NextPk(table) - 1
    IN  [k \in 1..Len(SelectSeq(items, LAMBDA it : ValidatedCreateData(it) # EmptyDict)) |->
            Representation(InsertAll(table, items), base + k)]

\* CreateModelMixin.create, reached through super()
StandardCreate(data) ==
    LET errors == ListErrors(data.items)
    IN  IF IsValidRaises(errors)
        THEN /\ Raise("ValidationError", errors)
             /\ calls' = <<"super.create">>
             /\ db' = db
        ELSE /\ db' = InsertAll(db, data.items)
             /\ calls' = <<"super.create", "perform_create", "save">>
             /\ Return(HTTP_201_CREATED, "dict", CreatedData(db, data.items))

BulkCreate(data) ==
    LET errors == ListErrors(data.items)
    IN  IF IsValidRaises(errors)
        THEN /\ Raise("ValidationError", errors)
             /\ calls' = <<>>
             /\ db' = db
        ELSE /\ db' = InsertAll(db, data.items)
             /\ calls' = <<"perform_bulk_create", "perform_create", "save">>
             /\ Return(HTTP_201_CREATED, "list", CreatedData(db, data.items))

Create ==
    /\ pc = "idle"
    /\ \E data \in CreatePayloads :
        /\ Enter([method |-> "POST", data |-> data])
        /\ NextPk(db) + Len(data.items) - 1 <= MaxPk
        /\ Locals(FALSE, 0, <<>>, <<>>, <<>>)
        /\ IF ~IsBulk(data) THEN StandardCreate(data) ELSE BulkCreate(data)

-----------------------------------------------------------------------------
(* BulkUpdateModelMixin.bulk_update and partial_bulk_update *)

NotFound == 0

\* get_object_or_404(queryset, pk=pk): the pk of the object, NotFound for Http404
get_object_or_404(qs, table, pk) ==
    IF pk \in Evaluate(qs, table) THEN pk ELSE NotFound

\* variant: items are looked up in the unfiltered queryset
UpdateScope_Unfiltered(params) == get_queryset

\* the queryset every item of a bulk update is looked up in
UpdateScope(params) == filter_queryset(get_queryset, params)

\* if not item_serializer.is_valid(): validation_errors.append(item_serializer.errors)
CollectErrors(errors, item, isPartial) ==
    IF ~is_valid(item, isPartial) THEN Append(errors, Errors(item, isPartial))
    ELSE errors

\* variant: the validated data is collected in reverse order
CollectValidated_Prepend(validated, item, isPartial) ==
    <<ValidatedData(item, isPartial)>> \o validated

\* validated_data.append(item_serializer.validated_data)
CollectValidated(validated, item, isPartial) ==
    Append(validated, ValidatedData(item, isPartial))

\* variant: the collected errors are never raised
MustRaise_Never(errors) == FALSE

\* if validation_errors: raise ValidationError(validation_errors)
MustRaise(errors) == errors # <<>>

\* serializer.save() of the collection serializer: every validated mapping is
\* written to the record it names, in order
RECURSIVE UpdateAll(_, _)
UpdateAll(table, validated) ==
    IF validated = <<>> THEN table
    ELSE LET vd == Head(validated)
             next == IF "name" \in DOMAIN vd THEN [table EXCEPT ![vd.id] = vd.name]
                     ELSE table
         IN  UpdateAll(next, Tail(validated))

\* serializer.data after the save: the updated objects
UpdatedData(table, validated) ==
    LET named == SelectSeq(validated, LAMBDA vd : "id" \in DOMAIN vd)
    IN  [k \in DOMAIN named |-> Representation(table, named[k].id)]

UpdatePayloads == SeqsUpTo(UpdateItems, MaxBatch)

BulkUpdateEnter(method, isPartial) ==
    \E data \in UpdatePayloads, params \in QueryParams :
        /\ Enter([method |-> method, data |-> data, query |-> params])
        /\ Locals(isPartial, 1, <<>>, <<>>, <<>>)
        /\ pc' = "bulk_update"
        /\ calls' = <<>>
        /\ response' = NoResponse
        /\ exc' = NoException
        /\ db' = db

\* PUT on the collection: partial = kwargs.pop('partial', False)
BulkUpdate ==
    /\ pc = "idle"
    /\ BulkUpdateEnter("PUT", FALSE)

\* PATCH on the collection: kwargs['partial'] = True, then bulk_update
PartialBulkUpdate ==
    /\ pc = "idle"
    /\ BulkUpdateEnter("PATCH", TRUE)

\* one iteration of `for item in request.data`
BulkUpdateItem ==
    /\ pc = "bulk_update"
    /\ idx <= Len(request.data)
    /\ LET item == request.data[idx]
           obj == get_object_or_404(UpdateScope(request.query), db, item.id)
       IN  IF obj = NotFound
           THEN /\ Raise("Http404", <<>>)
                /\ UNCHANGED <<idx, validated_data, validation_errors>>
           ELSE /\ validation_errors' = CollectErrors(validation_errors, item, partial)
                /\ validated_data' = CollectValidated(validated_data, item, partial)
                /\ idx' = idx + 1
                /\ UNCHANGED <<pc, response, exc>>
    /\ UNCHANGED <<db, db0, request, partial, objects, calls>>

\* after the loop: raise the collected errors, or save once and respond
BulkUpdateFinish ==
    /\ pc = "bulk_update"
    /\ idx > Len(request.data)
    /\ IF MustRaise(validation_errors)
       THEN /\ Raise("ValidationError", validation_errors)
            /\ UNCHANGED <<db, calls>>
       ELSE /\ db' = UpdateAll(db, validated_data)
            /\ calls' = <<"perform_bulk_update", "perform_update", "save">>
            /\ Return(HTTP_200_OK, "list", UpdatedData(db', validated_data))
    /\ UNCHANGED <<db0, request, partial, idx, validated_data, validation_errors, objects>>

-----------------------------------------------------------------------------
(* BulkUpdateModelMixin.get_object *)

lookup_url_kwargs == {None} \cup KwargNames

\* variant: the configured url kwarg is ignored
LookupUrlKwarg_FieldOnly(configured) == lookup_field

\* lookup_url_kwarg = self.lookup_url_kwarg or self.lookup_field
LookupUrlKwarg(configured) == IF configured # None THEN configured ELSE lookup_field

\* if lookup_url_kwarg in self.kwargs
HasLookup(configured, kwargs) == LookupUrlKwarg(configured) \in kwargs.keys

\* GenericAPIView.get_object, reached through super(): the object of the
\* filtered queryset whose lookup field equals the url kwarg, or Http404
GetObject ==
    /\ pc = "idle"
    /\ \E configured \in lookup_url_kwargs, keys \in SUBSET KwargNames,
       value \in Pks, params \in QueryParams :
        LET kwargs == [keys |-> keys, value |-> value]
            obj == get_object_or_404(filter_queryset(get_queryset, params), db, value)
        IN  /\ Enter([method |-> "OPTIONS", lookup_url_kwarg |-> configured,
                      kwargs |-> kwargs, query |-> params])
            /\ Locals(FALSE, 0, <<>>, <<>>, <<>>)
            /\ db' = db
            /\ pc' = "done"
            /\ exc' = IF HasLookup(configured, kwargs) /\ obj = NotFound
                      THEN [type |-> "Http404", detail |-> <<>>]
                      ELSE NoException
            /\ calls' = IF HasLookup(configured, kwargs) THEN <<"super.get_object">>
                        ELSE <<>>
            /\ response' =
                  IF HasLookup(configured, kwargs) /\ obj # NotFound
                  THEN [status |-> 0, shape |-> "object",
                        data |-> <<Representation(db, obj)>>]
                  ELSE NoResponse

-----------------------------------------------------------------------------
(* BulkDestroyModelMixin *)

\* variant: the guard lets every destroy through
allow_bulk_destroy_Always(qs, filtered) == TRUE

\* return qs is not filtered
allow_bulk_destroy(qs, filtered) == qs.ref # filtered.ref

\* variant: the unfiltered queryset is destroyed
DestroyTargets_Unfiltered(qs, filtered) == qs

\* self.perform_bulk_destroy(filtered)
DestroyTargets(qs, filtered) == filtered

\* instance.delete()
Delete(table, pk) == [table EXCEPT ![pk] = NoRecord]

BulkDestroy ==
    /\ pc = "idle"
    /\ \E params \in QueryParams :
        LET qs == get_queryset
            filtered == filter_queryset(qs, params)
        IN  /\ Enter([method |-> "DELETE", query |-> params])
            /\ db' = db
            /\ IF ~allow_bulk_destroy(qs, filtered)
               THEN /\ Return(HTTP_400_BAD_REQUEST, "none", <<>>)
                    /\ calls' = <<>>
                    /\ Locals(FALSE, 0, <<>>, <<>>, <<>>)
               ELSE \* perform_bulk_destroy: `for obj in objects` evaluates the
                    \* queryset once, in whatever order the queryset has
                    \E order \in Perms(Evaluate(DestroyTargets(qs, filtered), db)) :
                        /\ pc' = "perform_bulk_destroy"
                        /\ calls' = <<"perform_bulk_destroy">>
                        /\ response' = NoResponse
                        /\ exc' = NoException
                        /\ Locals(FALSE, 1, <<>>, <<>>, order)

\* one iteration of `for obj in objects`: perform_destroy(obj) succeeds
PerformDestroy ==
    /\ pc = "perform_bulk_destroy"
    /\ idx <= Len(objects)
    /\ db' = Delete(db, objects[idx])
    /\ idx' = idx + 1
    /\ calls' = Append(calls, "perform_destroy")
    /\ UNCHANGED <<db0, pc, request, partial, objects, validated_data,
                   validation_errors, response, exc>>

\* variant: a failing deletion rolls the earlier deletions back
PerformDestroyFails_Rollback ==
    /\ pc = "perform_bulk_destroy"
    /\ idx <= Len(objects)
    /\ calls' = Append(calls, "perform_destroy")
    /\ Raise("DeleteError", <<>>)
    /\ db' = db0
    /\ UNCHANGED <<db0, request, partial, idx, validated_data, validation_errors,
                   objects>>

\* one iteration of `for obj in objects`: instance.delete() raises
PerformDestroyFails ==
    /\ pc = "perform_bulk_destroy"
    /\ idx <= Len(objects)
    /\ calls' = Append(calls, "perform_destroy")
    /\ Raise("DeleteError", <<>>)
    /\ UNCHANGED <<db, db0, request, partial, idx, validated_data, validation_errors,
                   objects>>

\* the loop is over: return Response(status=status.HTTP_204_NO_CONTENT)
BulkDestroyFinish ==
    /\ pc = "perform_bulk_destroy"
    /\ idx > Len(objects)
    /\ Return(HTTP_204_NO_CONTENT, "none", <<>>)
    /\ UNCHANGED <<db, db0, request, partial, idx, validated_data, validation_errors,
                   objects, calls>>

-----------------------------------------------------------------------------
(* Between two requests: nothing but the table outlives a request *)

EndRequest ==
    /\ pc = "done"
    /\ pc' = "idle"
    /\ request' = [method |-> None]
    /\ db0' = db
    /\ Locals(FALSE, 0, <<>>, <<>>, <<>>)
    /\ calls' = <<>>
    /\ response' = NoResponse
    /\ exc' = NoException
    /\ db' = db

-----------------------------------------------------------------------------

Next ==
    \/ Create
    \/ BulkUpdate
    \/ PartialBulkUpdate
    \/ BulkUpdateItem
    \/ BulkUpdateFinish
    \/ GetObject
    \/ BulkDestroy
    \/ PerformDestroy
    \/ PerformDestroyFails
    \/ BulkDestroyFinish
    \/ EndRequest

Spec == Init /\ [][Next]_vars

-----------------------------------------------------------------------------
(* Vocabulary of the properties, stated on the request and the tables only *)

IsBulkUpdate == request.method \in {"PUT", "PATCH"}
IsPatch == request.method = "PATCH"
IsBulkPost == request.method = "POST" /\ request.data.kind = "list"
IsDestroy == request.method = "DELETE"
IsLookup == request.method = "OPTIONS"
Done == pc = "done"

\* the record pk existed, and passed the request's filter, when the request began
InScope(pk) ==
    /\ db0[pk] # NoRecord
    /\ request.query = NoFilter \/ db0[pk] = request.query

Scope == {pk \in Pks : InScope(pk)}

\* the item violates the schema: a blank name, or no name in a full update
FailsValidation(item, isPartial) ==
    \/ item.name = Blank
    \/ item.name = Missing /\ ~isPartial

Positions == 1..Len(request.data)
AllResolve == \A k \in Positions : InScope(request.data[k].id)
Failing == {k \in Positions : FailsValidation(request.data[k], IsPatch)}
Saves == Len(SelectSeq(calls, LAMBDA c : c = "save"))
Untouched == db = db0

-----------------------------------------------------------------------------
(* C1: for a bulk_update batch of N items of which exactly item k fails     *)
(* validation, all identifiers resolving, the validation error raised       *)
(* carries N entries: an empty one at every position but k, the errors of   *)
(* item k at position k.                                                    *)

C1_ErrorsArePositional ==
    (Done /\ IsBulkUpdate /\ AllResolve /\ Cardinality(Failing) = 1) =>
        /\ exc.type = "ValidationError"
        /\ Len(exc.detail) = Len(request.data)
        /\ \A k \in Positions : (exc.detail[k] = EmptyDict) <=> (k \notin Failing)

-----------------------------------------------------------------------------
(* C2, as stated: save happens only after every item was looked up and      *)
(* validated and only if all are valid; once an item has failed validation  *)
(* the request ends in a validation error, without save and with every      *)
(* record unchanged; the loop goes on after a failing item.                 *)

SaveOnlyAfterAllValid ==
    (IsBulkUpdate /\ Saves > 0) =>
        /\ idx = Len(request.data) + 1
        /\ Len(validated_data) = Len(request.data)
        /\ AllResolve
        /\ Failing = {}

\* the items validated so far that failed
FailedSoFar == {k \in Failing : k < idx}

LoopGoesOn ==
    (IsBulkUpdate /\ AllResolve /\ Done) =>
        /\ idx = Len(request.data) + 1
        /\ Len(validated_data) = Len(request.data)

C2_AsStated ==
    /\ SaveOnlyAfterAllValid
    /\ LoopGoesOn
    /\ (IsBulkUpdate /\ Done /\ FailedSoFar # {}) =>
            /\ exc.type = "ValidationError"
            /\ Saves = 0
            /\ Untouched

(* C2, amended: as above, but the validation error is raised provided every *)
(* identifier of the batch resolves; if one does not, the request ends in   *)
(* not-found instead, still without save and with every record unchanged.   *)

C2_NoSaveUnlessAllValid ==
    /\ SaveOnlyAfterAllValid
    /\ LoopGoesOn
    /\ (IsBulkUpdate /\ FailedSoFar # {}) =>
            /\ Saves = 0
            /\ Untouched
            /\ Done => exc.type = IF AllResolve THEN "ValidationError" ELSE "Http404"

\* a batch whose first item failed validation, and whose second item was
\* still validated, ended in a validation error
C2_Witness ==
    /\ Done /\ IsBulkUpdate /\ AllResolve
    /\ Len(request.data) >= 2
    /\ 1 \in Failing
    /\ Cardinality(Failing) < Len(request.data)
    /\ exc.type = "ValidationError"

-----------------------------------------------------------------------------
(* C3: if an item of a bulk_update batch carries an identifier that is not  *)
(* in the filtered queryset, the request ends in not-found and no record is *)
(* modified, wherever the item stands and whatever the other items are.     *)

C3_NotFoundAborts ==
    (IsBulkUpdate /\ ~AllResolve) =>
        /\ Untouched
        /\ Saves = 0
        /\ Done => (exc.type = "Http404" /\ response = NoResponse)

\* the unresolved identifier came second, after an item that failed
\* validation, and it is the identifier of a record the filter left out
C3_Witness ==
    /\ Done /\ IsBulkUpdate
    /\ Len(request.data) = 2
    /\ InScope(request.data[1].id) /\ 1 \in Failing
    /\ ~InScope(request.data[2].id) /\ db0[request.data[2].id] # NoRecord
    /\ exc.type = "Http404"

-----------------------------------------------------------------------------
(* C4: for a bulk_update batch whose items all resolve and are valid, the   *)
(* validated data handed to the collection serializer has the length and    *)
(* order of the batch, one save is performed, the records then hold the     *)
(* submitted values, and the response (200) lists the updated items in the  *)
(* order of the batch.                                                      *)

\* no later item of the batch submits a name for the same record
LastWrite(k) ==
    \A j \in Positions :
        (j > k /\ request.data[j].id = request.data[k].id) => request.data[j].name = Missing

C4_ValidBatchSaved ==
    (Done /\ IsBulkUpdate /\ AllResolve /\ Failing = {}) =>
        /\ exc = NoException
        /\ Len(validated_data) = Len(request.data)
        /\ \A k \in Positions :
              /\ validated_data[k] # EmptyDict
              /\ validated_data[k].id = request.data[k].id
              /\ IF request.data[k].name = Missing
                 THEN DOMAIN validated_data[k] = {"id"}
                 ELSE validated_data[k].name = request.data[k].name
        /\ Saves = 1
        /\ \A k \in Positions :
              (request.data[k].name # Missing /\ LastWrite(k)) =>
                  db[request.data[k].id] = request.data[k].name
        /\ \A pk \in Pks :
              (\A k \in Positions : request.data[k].id = pk => request.data[k].name = Missing)
                  => db[pk] = db0[pk]
        /\ response.status = HTTP_200_OK
        /\ Len(response.data) = Len(request.data)
        /\ \A k \in Positions :
              response.data[k] = [id |-> request.data[k].id, name |-> db[request.data[k].id]]

\* two different records were given new names in one batch, the higher pk first
C4_Witness ==
    /\ Done /\ IsBulkUpdate /\ AllResolve /\ Failing = {}
    /\ Len(request.data) = 2
    /\ request.data[1].id > request.data[2].id
    /\ \A k \in Positions :
          /\ request.data[k].name # Missing
          /\ db0[request.data[k].id] # request.data[k].name
    /\ response.status = HTTP_200_OK

-----------------------------------------------------------------------------
(* C5: for a list payload to create of which an item fails validation, the  *)
(* validation error leaves the handler, perform_bulk_create is not called   *)
(* and no record is persisted.                                              *)

PostItems == request.data.items
PostPositions == 1..Len(PostItems)
PostFailing == {k \in PostPositions : FailsValidation(PostItems[k], FALSE)}
Called(name) == \E k \in DOMAIN calls : calls[k] = name

C5_InvalidCreatePersistsNothing ==
    (Done /\ IsBulkPost /\ PostFailing # {}) =>
        /\ exc.type = "ValidationError"
        /\ response = NoResponse
        /\ ~Called("perform_bulk_create")
        /\ ~Called("save")
        /\ Untouched

\* the list held a valid item before the failing one
C5_Witness ==
    /\ Done /\ IsBulkPost
    /\ Len(PostItems) = 2
    /\ PostFailing = {2}
    /\ exc.type = "ValidationError"

-----------------------------------------------------------------------------
(* C6: for a list payload of N valid items to create, N records are         *)
(* persisted and the response is 201 with N entries, the i-th matching the  *)
(* i-th item; a payload that is not a list is handed to the standard        *)
(* single-object create.                                                    *)

C6_ValidCreatePersistsAll ==
    /\ (Done /\ IsBulkPost /\ PostFailing = {}) =>
          /\ exc = NoException
          /\ Called("perform_bulk_create")
          /\ ~Called("super.create")
          /\ response.status = HTTP_201_CREATED
          /\ response.shape = "list"
          /\ Len(response.data) = Len(PostItems)
          /\ \A k \in PostPositions :
                /\ response.data[k].name = PostItems[k].name
                /\ db0[response.data[k].id] = NoRecord
                /\ db[response.data[k].id] = PostItems[k].name
                /\ \A j \in PostPositions :
                      j # k => response.data[j].id # response.data[k].id
          /\ Cardinality(Rows(db)) = Cardinality(Rows(db0)) + Len(PostItems)
          /\ \A pk \in Rows(db0) : db[pk] = db0[pk]
    /\ (Done /\ request.method = "POST" /\ ~IsBulkPost) =>
          /\ calls[1] = "super.create"
          /\ ~Called("perform_bulk_create")
          /\ response.shape # "list"

\* two valid items were created next to an existing record
C6_Witness ==
    /\ Done /\ IsBulkPost /\ PostFailing = {}
    /\ Len(PostItems) = 2
    /\ PostItems[1].name # PostItems[2].name
    /\ response.status = HTTP_201_CREATED

\* a single item was handed to the standard create
C6_SingleWitness ==
    /\ Done /\ request.method = "POST" /\ ~IsBulkPost
    /\ response.status = HTTP_201_CREATED

-----------------------------------------------------------------------------
(* C7: a bulk destroy whose filtered queryset is the unfiltered queryset    *)
(* itself (no filter applied) answers bad-request without body and deletes  *)
(* nothing: perform_bulk_destroy is not called and the table is unchanged.  *)

C7_UnfilteredDestroyRejected ==
    (IsDestroy /\ request.query = NoFilter) =>
        /\ Done
        /\ exc = NoException
        /\ response = [status |-> HTTP_400_BAD_REQUEST, shape |-> "none", data |-> <<>>]
        /\ ~Called("perform_bulk_destroy")
        /\ ~Called("perform_destroy")
        /\ Untouched

\* an unfiltered destroy was refused on a table that holds records
C7_Witness ==
    /\ Done /\ IsDestroy /\ request.query = NoFilter
    /\ Rows(db0) # {}
    /\ response.status = HTTP_400_BAD_REQUEST

-----------------------------------------------------------------------------
(* C8: when the guard accepts and no deletion fails, bulk_destroy deletes   *)
(* the objects of the filtered queryset and no other, leaves the remaining  *)
(* records as they were, and answers 204.                                   *)

C8_DeletesExactlyFiltered ==
    (Done /\ IsDestroy /\ request.query # NoFilter /\ exc = NoException) =>
        /\ response = [status |-> HTTP_204_NO_CONTENT, shape |-> "none", data |-> <<>>]
        /\ Rows(db) = Rows(db0) \ Scope
        /\ \A pk \in Rows(db) : db[pk] = db0[pk]

\* the filter kept one record and left another out
C8_Witness ==
    /\ Done /\ IsDestroy /\ request.query # NoFilter /\ exc = NoException
    /\ Scope # {}
    /\ Rows(db0) \ Scope # {}
    /\ response.status = HTTP_204_NO_CONTENT

-----------------------------------------------------------------------------
(* C9: get_object without the lookup identifier (lookup_url_kwarg, or       *)
(* lookup_field when that is unset) among the view kwargs returns None,     *)
(* raises nothing and does not call the standard lookup; with the           *)
(* identifier present it is the standard lookup that answers.               *)

Identifier ==
    IF request.lookup_url_kwarg = None THEN lookup_field ELSE request.lookup_url_kwarg

C9_LookupWithoutIdentifier ==
    (Done /\ IsLookup) =>
        IF Identifier \notin request.kwargs.keys
        THEN /\ response = NoResponse
             /\ exc = NoException
             /\ calls = <<>>
        ELSE /\ calls = <<"super.get_object">>
             /\ IF InScope(request.kwargs.value)
                THEN /\ exc = NoException
                     /\ response.shape = "object"
                     /\ response.data[1].id = request.kwargs.value
                ELSE /\ exc.type = "Http404"
                     /\ response = NoResponse

\* the view names a url kwarg the url did not supply, although it supplied pk
C9_Witness ==
    /\ Done /\ IsLookup
    /\ request.lookup_url_kwarg = "slug"
    /\ request.kwargs.keys = {"pk"}
    /\ response = NoResponse /\ exc = NoException

-----------------------------------------------------------------------------
(* C10: bulk_destroy deletes the objects of the filtered queryset one at a  *)
(* time in iteration order; when the deletion of the j-th fails the failure *)
(* leaves the handler, the objects before j stay deleted, those from j on   *)
(* are not deleted, and no 204 response is produced.                        *)

InDestroyLoop == IsDestroy /\ request.query # NoFilter

C10_PartialDestroy ==
    InDestroyLoop =>
        /\ Range(objects) = Scope
        /\ Len(objects) = Cardinality(Scope)
        /\ Rows(db0) \ Rows(db) = {objects[k] : k \in 1..(idx - 1)}
        /\ \A pk \in Rows(db) : db[pk] = db0[pk]
        /\ (Done /\ exc # NoException) =>
              /\ exc.type = "DeleteError"
              /\ idx <= Len(objects)
              /\ \A k \in idx..Len(objects) : objects[k] \in Rows(db)
              /\ response = NoResponse

\* the second deletion failed after the first had succeeded
C10_Witness ==
    /\ Done /\ InDestroyLoop
    /\ exc.type = "DeleteError"
    /\ idx = 2
    /\ Rows(db) # Rows(db0)

====
